---- MODULE Spec2Model ----
(***************************************************************************)
(* A model of the libcsr crate: spice cubes, spice amounts, caravans and   *)
(* points cards.  The library is a set of pure functions over value types; *)
(* the state machine is a caller that invokes one function on inputs drawn *)
(* from bounded sets, possibly chains further calls on the value returned, *)
(* and then drops all values and starts again.                             *)
(***************************************************************************)
EXTENDS Integers, Sequences, FiniteSets, TLC

\* Bounds of the model: the largest small component of the first operand of
\* a binary call, of its second operand, and of an amount a caravan is built
\* from or a card is bought with.
MaxSpice == 2
MaxOther == 1
MaxCount == 4

\* u8::MAX, the width of every spice count, point value and step count.
U8Max == 255
U8 == 0..U8Max

\* Components of the first operand / of the second operand of a call.
SpiceValues == (0..MaxSpice) \cup {U8Max}
OtherValues == (0..MaxOther) \cup {U8Max}
PointValues == {0, U8Max}

\* Option::None, the content of an empty slot of a caravan.
None == "None"
\* The content of a variable of the caller that holds no value.
Unset == [tag |-> "Unset"]

Ok(v) == [tag |-> "Ok", val |-> v]
Err(e) == [tag |-> "Err", err |-> e]
\* A panic of the running thread (arithmetic overflow with overflow checks
\* enabled, or an index out of bounds).
Panicked == [tag |-> "Panic"]

VARIABLES
    pc,               \* position of the caller: "idle", "returned", "aborted"
    overflow_checks,  \* build profile: TRUE panics on overflow, FALSE wraps
    op,               \* the function called last
    amount,           \* the SpiceAmount the call was made on / with
    other,            \* the second SpiceAmount operand
    cube,             \* the SpiceCube upgrade was called on
    steps,            \* the steps argument of upgrade
    card,             \* the PointsCard purchase was called on
    caravan,          \* the Caravan last constructed in this chain of calls
    builder,          \* the SpiceAmountBuilder under construction
    result            \* what the last call returned

vars == <<pc, overflow_checks, op, amount, other, cube, steps, card, caravan, builder, result>>

----------------------------------------------------------------------------
\* errors

CannotUpgradeToSelf == [kind |-> "CannotUpgradeToSelf"]
CannotUpgradePastCinnamon == [kind |-> "CannotUpgradePastCinnamon"]
MaxSpiceCapacityReached == [kind |-> "MaxSpiceCapacityReached"]
CannotSubtractSpiceAmount(original, missing) ==
    [kind |-> "CannotSubtractSpiceAmount", f0 |-> original, f1 |-> missing]

----------------------------------------------------------------------------
\* spice

SpiceCube == {"Turmeric", "Saffron", "Cardamon", "Cinnamon"}

\* `*self as u8`: the discriminant of the enum.
Level(c) ==
    CASE c = "Turmeric" -> 1
      [] c = "Saffron" -> 2
      [] c = "Cardamon" -> 3
      [] c = "Cinnamon" -> 4

\* u8 + u8: panics when overflow checks are on, wraps otherwise.
u8_add_overflows(x, y) == x + y > U8Max
u8_wrapping_add(x, y) == (x + y) % (U8Max + 1)
\* u8::saturating_sub
saturating_sub(x, y) == IF x >= y THEN x - y ELSE 0

upgrade_wrong_arm(self, steps_) ==
    IF steps_ = 0
    THEN Err(CannotUpgradeToSelf)
    ELSE IF overflow_checks /\ u8_add_overflows(Level(self), steps_)
    THEN Panicked
    ELSE LET current_level == Level(self)
             target_level == u8_wrapping_add(current_level, steps_)
         IN  CASE target_level = 2 -> Ok("Saffron")
               [] target_level = 3 -> Ok("Cinnamon")
               [] target_level = 4 -> Ok("Cinnamon")
               [] OTHER -> Err(CannotUpgradePastCinnamon)

upgrade(self, steps_) ==
    IF steps_ = 0
    THEN Err(CannotUpgradeToSelf)
    ELSE IF overflow_checks /\ u8_add_overflows(Level(self), steps_)
    THEN Panicked
    ELSE LET current_level == Level(self)
             target_level == u8_wrapping_add(current_level, steps_)
         IN  CASE target_level = 2 -> Ok("Saffron")
               [] target_level = 3 -> Ok("Cardamon")
               [] target_level = 4 -> Ok("Cinnamon")
               [] OTHER -> Err(CannotUpgradePastCinnamon)

\* The spice_amount! macro: named fields and the positional array are
\* written from the same four expressions.
spice_amount(turmeric, saffron, cardamon, cinnamon) ==
    [turmeric |-> turmeric, saffron |-> saffron, cardamon |-> cardamon,
     cinnamon |-> cinnamon,
     vector |-> <<turmeric, saffron, cardamon, cinnamon>>]

\* #[derive(Default)]
SpiceAmountDefault ==
    [turmeric |-> 0, saffron |-> 0, cardamon |-> 0, cinnamon |-> 0,
     vector |-> <<0, 0, 0, 0>>]

contains_strict(self, other_) ==
    /\ self.turmeric >= other_.turmeric
    /\ self.saffron >= other_.saffron
    /\ self.cardamon >= other_.cardamon
    /\ self.cinnamon > other_.cinnamon

contains(self, other_) ==
    /\ self.turmeric >= other_.turmeric
    /\ self.saffron >= other_.saffron
    /\ self.cardamon >= other_.cardamon
    /\ self.cinnamon >= other_.cinnamon

add(self, other_) ==
    IF overflow_checks /\
       (\/ u8_add_overflows(self.turmeric, other_.turmeric)
        \/ u8_add_overflows(self.saffron, other_.saffron)
        \/ u8_add_overflows(self.cardamon, other_.cardamon)
        \/ u8_add_overflows(self.cinnamon, other_.cinnamon))
    THEN Panicked
    ELSE spice_amount(u8_wrapping_add(self.turmeric, other_.turmeric),
                      u8_wrapping_add(self.saffron, other_.saffron),
                      u8_wrapping_add(self.cardamon, other_.cardamon),
                      u8_wrapping_add(self.cinnamon, other_.cinnamon))

subtract_swapped_fields(self, other_) ==
    IF ~contains(self, other_)
    THEN LET missing == spice_amount(
                 saturating_sub(other_.turmeric, self.turmeric),
                 saturating_sub(other_.saffron, self.saffron),
                 saturating_sub(other_.cardamon, self.cardamon),
                 saturating_sub(other_.cinnamon, self.cinnamon))
         IN  Err(CannotSubtractSpiceAmount(self, missing))
    ELSE Ok(spice_amount(self.turmeric - other_.turmeric,
                         self.saffron - other_.saffron,
                         self.cinnamon - other_.cinnamon,
                         self.cardamon - other_.cardamon))

subtract_deficit_reversed(self, other_) ==
    IF ~contains(self, other_)
    THEN LET missing == spice_amount(
                 saturating_sub(other_.turmeric, self.turmeric),
                 saturating_sub(other_.saffron, self.saffron),
                 saturating_sub(other_.cardamon, self.cardamon),
                 saturating_sub(self.cinnamon, other_.cinnamon))
         IN  Err(CannotSubtractSpiceAmount(self, missing))
    ELSE Ok(spice_amount(self.turmeric - other_.turmeric,
                         self.saffron - other_.saffron,
                         self.cardamon - other_.cardamon,
                         self.cinnamon - other_.cinnamon))

subtract(self, other_) ==
    IF ~contains(self, other_)
    THEN LET missing == spice_amount(
                 saturating_sub(other_.turmeric, self.turmeric),
                 saturating_sub(other_.saffron, self.saffron),
                 saturating_sub(other_.cardamon, self.cardamon),
                 saturating_sub(other_.cinnamon, self.cinnamon))
         IN  Err(CannotSubtractSpiceAmount(self, missing))
    ELSE Ok(spice_amount(self.turmeric - other_.turmeric,
                         self.saffron - other_.saffron,
                         self.cardamon - other_.cardamon,
                         self.cinnamon - other_.cinnamon))

\* SpiceAmountBuilder: each setter writes the named field and its slot of
\* the positional array.
builder_new == [spice_amount |-> SpiceAmountDefault]
builder_turmeric(b, turmeric) ==
    [b EXCEPT !.spice_amount.turmeric = turmeric, !.spice_amount.vector[1] = turmeric]
builder_saffron(b, saffron) ==
    [b EXCEPT !.spice_amount.saffron = saffron, !.spice_amount.vector[2] = saffron]
builder_cardamon_wrong_slot(b, cardamon) ==
    [b EXCEPT !.spice_amount.cardamon = cardamon, !.spice_amount.vector[2] = cardamon]
builder_cardamon(b, cardamon) ==
    [b EXCEPT !.spice_amount.cardamon = cardamon, !.spice_amount.vector[3] = cardamon]
builder_cinnamon(b, cinnamon) ==
    [b EXCEPT !.spice_amount.cinnamon = cinnamon, !.spice_amount.vector[4] = cinnamon]
builder_build(b) == b.spice_amount

\* impl From<[u8; 4]> for SpiceAmount
from_array(spice_array) ==
    [turmeric |-> spice_array[1], saffron |-> spice_array[2],
     cardamon |-> spice_array[3], cinnamon |-> spice_array[4],
     vector |-> spice_array]

\* impl From<SpiceAmount> for [u8; 4]
into_array(spice_amount_) == spice_amount_.vector

----------------------------------------------------------------------------
\* player

MAX_CARAVAN_SIZE == 10

\* `let mut spaces = [None; MAX_CARAVAN_SIZE]`; slot i of the array is
\* element i + 1 of the sequence.
EmptySpaces == [i \in 1..MAX_CARAVAN_SIZE |-> None]

\* `for _ in 0..count { spaces[idx] = Some(spice); idx += 1; }`
\* An index past the end of the array panics.
RECURSIVE fill_count(_, _, _)
fill_count(st, count, spice) ==
    IF count = 0 \/ st.panic
    THEN st
    ELSE IF st.idx >= MAX_CARAVAN_SIZE
    THEN [st EXCEPT !.panic = TRUE]
    ELSE fill_count([spaces |-> [st.spaces EXCEPT ![st.idx + 1] = spice],
                     idx |-> st.idx + 1, panic |-> FALSE],
                    count - 1, spice)

\* `for (count, spice) in spices { ... }`
RECURSIVE fill_spices(_, _)
fill_spices(st, spices) ==
    IF spices = <<>>
    THEN st
    ELSE fill_spices(fill_count(st, Head(spices)[1], Head(spices)[2]), Tail(spices))

from_spice_amount_off_by_one(spice_amount_) ==
    LET spice_vector == into_array(spice_amount_)
        turmeric == spice_vector[1]
        saffron == spice_vector[2]
        cardamon == spice_vector[3]
        cinnamon == spice_vector[4]
        total == turmeric + saffron + cardamon + cinnamon
        spices == << <<turmeric, "Turmeric">>, <<saffron, "Saffron">>,
                     <<cardamon, "Cardamon">>, <<cinnamon, "Cinnamon">> >>
        filled == fill_spices([spaces |-> EmptySpaces, idx |-> 0, panic |-> FALSE], spices)
    IN  IF total > MAX_CARAVAN_SIZE + 1
        THEN Err(MaxSpiceCapacityReached)
        ELSE IF filled.panic THEN Panicked
        ELSE Ok([spaces |-> filled.spaces])

from_spice_amount_u8_total(spice_amount_) ==
    LET spice_vector == into_array(spice_amount_)
        turmeric == spice_vector[1]
        saffron == spice_vector[2]
        cardamon == spice_vector[3]
        cinnamon == spice_vector[4]
        total == (turmeric + saffron + cardamon + cinnamon) % (U8Max + 1)
        spices == << <<turmeric, "Turmeric">>, <<saffron, "Saffron">>,
                     <<cardamon, "Cardamon">>, <<cinnamon, "Cinnamon">> >>
        filled == fill_spices([spaces |-> EmptySpaces, idx |-> 0, panic |-> FALSE], spices)
    IN  IF total > MAX_CARAVAN_SIZE
        THEN Err(MaxSpiceCapacityReached)
        ELSE IF filled.panic THEN Panicked
        ELSE Ok([spaces |-> filled.spaces])

from_spice_amount_descending(spice_amount_) ==
    LET spice_vector == into_array(spice_amount_)
        turmeric == spice_vector[1]
        saffron == spice_vector[2]
        cardamon == spice_vector[3]
        cinnamon == spice_vector[4]
        total == turmeric + saffron + cardamon + cinnamon
        spices == << <<cinnamon, "Cinnamon">>, <<cardamon, "Cardamon">>,
                     <<saffron, "Saffron">>, <<turmeric, "Turmeric">> >>
        filled == fill_spices([spaces |-> EmptySpaces, idx |-> 0, panic |-> FALSE], spices)
    IN  IF total > MAX_CARAVAN_SIZE
        THEN Err(MaxSpiceCapacityReached)
        ELSE IF filled.panic THEN Panicked
        ELSE Ok([spaces |-> filled.spaces])

\* The sum is taken in usize, so it cannot overflow for u8 components.
from_spice_amount(spice_amount_) ==
    LET spice_vector == into_array(spice_amount_)
        turmeric == spice_vector[1]
        saffron == spice_vector[2]
        cardamon == spice_vector[3]
        cinnamon == spice_vector[4]
        total == turmeric + saffron + cardamon + cinnamon
        spices == << <<turmeric, "Turmeric">>, <<saffron, "Saffron">>,
                     <<cardamon, "Cardamon">>, <<cinnamon, "Cinnamon">> >>
        filled == fill_spices([spaces |-> EmptySpaces, idx |-> 0, panic |-> FALSE], spices)
    IN  IF total > MAX_CARAVAN_SIZE
        THEN Err(MaxSpiceCapacityReached)
        ELSE IF filled.panic THEN Panicked
        ELSE Ok([spaces |-> filled.spaces])

\* `self.spaces.iter().filter(|&&x| x == Some(spice)).count() as u8`
count_spaces(caravan_, spice) ==
    Cardinality({i \in 1..MAX_CARAVAN_SIZE : caravan_.spaces[i] = spice}) % (U8Max + 1)

\* `self.spaces.iter().flatten().count() as u8`
current_capacity(caravan_) ==
    Cardinality({i \in 1..MAX_CARAVAN_SIZE : caravan_.spaces[i] # None}) % (U8Max + 1)

get_spice_amount_miscounted(caravan_) ==
    builder_build(
        builder_cinnamon(
            builder_cardamon(
                builder_saffron(
                    builder_turmeric(builder_new, count_spaces(caravan_, "Turmeric")),
                    count_spaces(caravan_, "Saffron")),
                count_spaces(caravan_, "Saffron")),
            count_spaces(caravan_, "Cinnamon")))

get_spice_amount(caravan_) ==
    builder_build(
        builder_cinnamon(
            builder_cardamon(
                builder_saffron(
                    builder_turmeric(builder_new, count_spaces(caravan_, "Turmeric")),
                    count_spaces(caravan_, "Saffron")),
                count_spaces(caravan_, "Cardamon")),
            count_spaces(caravan_, "Cinnamon")))

----------------------------------------------------------------------------
\* cards

\* The points_card! macro.
points_card(points, turmeric, saffron, cardamon, cinnamon) ==
    [points |-> points,
     cost |-> [turmeric |-> turmeric, saffron |-> saffron, cardamon |-> cardamon,
               cinnamon |-> cinnamon,
               vector |-> <<turmeric, saffron, cardamon, cinnamon>>]]

POINTS_CARDS == <<
    points_card(6, 2, 2, 0, 0),
    points_card(7, 3, 2, 0, 0),
    points_card(8, 2, 3, 0, 0),
    points_card(8, 0, 4, 0, 0),
    points_card(8, 2, 0, 2, 0),
    points_card(9, 3, 0, 2, 0),
    points_card(9, 2, 1, 0, 1),
    points_card(10, 0, 5, 0, 0),
    points_card(10, 0, 2, 2, 0),
    points_card(10, 2, 0, 0, 2),
    points_card(11, 2, 0, 3, 0),
    points_card(11, 3, 0, 0, 2),
    points_card(12, 0, 2, 0, 2),
    points_card(12, 1, 1, 1, 1),
    points_card(12, 0, 2, 1, 1),
    points_card(12, 0, 0, 4, 0),
    points_card(12, 1, 0, 2, 1),
    points_card(12, 0, 3, 2, 0),
    points_card(13, 2, 2, 2, 0),
    points_card(13, 0, 2, 3, 0),
    points_card(14, 2, 0, 0, 3),
    points_card(14, 0, 3, 0, 2),
    points_card(14, 0, 0, 2, 2),
    points_card(14, 3, 1, 1, 1),
    points_card(15, 0, 0, 5, 0),
    points_card(15, 2, 2, 0, 2),
    points_card(16, 0, 0, 0, 4),
    points_card(16, 0, 2, 0, 3),
    points_card(16, 1, 3, 1, 1),
    points_card(17, 0, 0, 3, 2),
    points_card(17, 2, 0, 2, 2),
    points_card(18, 0, 0, 2, 3),
    points_card(18, 1, 1, 3, 1),
    points_card(19, 0, 2, 2, 2),
    points_card(20, 0, 0, 0, 5),
    points_card(20, 1, 1, 1, 3) >>

purchase_cost_as_points(self, spice_amount_) ==
    LET subtracted == subtract(spice_amount_, self.cost)
    IN  IF subtracted.tag = "Err"
        THEN subtracted
        ELSE Ok(<<self.cost.turmeric, subtracted.val>>)

purchase_error_of_card(self, spice_amount_) ==
    LET subtracted == subtract(spice_amount_, self.cost)
    IN  IF subtracted.tag = "Err"
        THEN Err(CannotSubtractSpiceAmount(self.cost, subtracted.err.f1))
        ELSE Ok(<<self.points, subtracted.val>>)

purchase_keeps_amount(self, spice_amount_) ==
    LET subtracted == subtract(spice_amount_, self.cost)
    IN  IF subtracted.tag = "Err"
        THEN subtracted
        ELSE Ok(<<self.points, spice_amount_>>)

\* `spice_amount.subtract(&self.cost)?` returns the error of subtract as it
\* is (the error type of both functions is GameErrors).
purchase(self, spice_amount_) ==
    LET subtracted == subtract(spice_amount_, self.cost)
    IN  IF subtracted.tag = "Err"
        THEN subtracted
        ELSE Ok(<<self.points, subtracted.val>>)

purchase_call_in_place(self, spice_amount_) ==
    LET ret == purchase(self, spice_amount_)
    IN  [ret |-> ret,
         self |-> self,
         spice_amount |-> IF ret.tag = "Ok" THEN ret.val[2] ELSE spice_amount_]

\* What the caller holds after card.purchase(&s): the value returned, and
\* the card and s, which are borrowed immutably (`&self`,
\* `&SpiceAmount`; subtract takes a copy of *spice_amount).
purchase_call(self, spice_amount_) ==
    [ret |-> purchase(self, spice_amount_),
     self |-> self,
     spice_amount |-> spice_amount_]

\* cards::action
ActionCard_Gain(spice_amount_) == [kind |-> "Gain", amount |-> spice_amount_]
ActionCard_Upgrade(max_steps) == [kind |-> "Upgrade", max_steps |-> max_steps]

STARTING_ACTION_CARDS == <<
    ActionCard_Gain(spice_amount(2, 0, 0, 0)),
    ActionCard_Upgrade(2) >>

PURCHASABLE_ACTION_CARDS == <<
    ActionCard_Gain(spice_amount(3, 0, 0, 0)),
    ActionCard_Gain(spice_amount(4, 0, 0, 0)),
    ActionCard_Gain(spice_amount(1, 1, 0, 0)),
    ActionCard_Gain(spice_amount(2, 1, 0, 0)),
    ActionCard_Gain(spice_amount(0, 2, 0, 0)),
    ActionCard_Gain(spice_amount(0, 0, 1, 0)),
    ActionCard_Gain(spice_amount(1, 0, 1, 0)),
    ActionCard_Gain(spice_amount(0, 0, 0, 1)),
    ActionCard_Upgrade(3) >>

----------------------------------------------------------------------------
\* inputs

\* Components of an amount a caravan is built from: small counts, the
\* capacity and its successor, and the largest u8.
CountValues == (0..MaxCount) \cup {MAX_CARAVAN_SIZE, MAX_CARAVAN_SIZE + 1, U8Max}

\* The operands of the documentation examples of subtract.
DocAmounts == {spice_amount(2, 1, 4, 3)}
DocOperands == {spice_amount(1, 1, 4, 1), spice_amount(3, 2, 4, 0)}

Amounts ==
    {spice_amount(t, s, c, n) : t \in SpiceValues, s \in SpiceValues,
                                c \in SpiceValues, n \in SpiceValues} \cup DocAmounts
OtherOperands ==
    {spice_amount(t, s, c, n) : t \in OtherValues, s \in OtherValues,
                                c \in OtherValues, n \in OtherValues} \cup DocOperands
CaravanAmounts ==
    {spice_amount(t, s, c, n) : t \in CountValues, s \in CountValues,
                                c \in CountValues, n \in CountValues}
PurseAmounts ==
    {spice_amount(t, s, c, n) : t \in 0..MaxCount, s \in 0..MaxCount,
                                c \in 0..MaxCount, n \in 0..MaxCount}
Cards ==
    {POINTS_CARDS[i] : i \in 1..Len(POINTS_CARDS)}
        \cup {[points |-> p, cost |-> o] : p \in PointValues, o \in OtherOperands}

----------------------------------------------------------------------------
\* the caller

Init ==
    /\ pc = "idle"
    /\ overflow_checks \in BOOLEAN
    /\ op = None
    /\ amount = Unset
    /\ other = Unset
    /\ cube = None
    /\ steps = None
    /\ card = Unset
    /\ caravan = Unset
    /\ builder = Unset
    /\ result = Unset

\* Where the caller stands after a call that returned r.
After(r) == IF r.tag = "Panic" THEN "aborted" ELSE "returned"

\* cube.upgrade(steps)
Upgrade ==
    /\ pc = "idle"
    /\ \E c \in SpiceCube, n \in U8 :
        /\ cube' = c
        /\ steps' = n
        /\ result' = upgrade(c, n)
    /\ op' = "upgrade"
    /\ pc' = After(result')
    /\ UNCHANGED <<overflow_checks, amount, other, card, caravan, builder>>

\* a.subtract(&b)
Subtract ==
    /\ pc = "idle"
    /\ \E a \in Amounts, b \in OtherOperands :
        /\ amount' = a
        /\ other' = b
        /\ result' = subtract(a, b)
    /\ op' = "subtract"
    /\ pc' = "returned"
    /\ UNCHANGED <<overflow_checks, cube, steps, card, caravan, builder>>

\* c.add(&b) on the c that a.subtract(&b) returned
AddBack ==
    /\ pc = "returned"
    /\ op = "subtract"
    /\ result.tag = "Ok"
    /\ result' = (LET r == add(result.val, other)
                  IN  IF r = Panicked THEN r ELSE Ok(r))
    /\ op' = "add_back"
    /\ pc' = After(result')
    /\ UNCHANGED <<overflow_checks, amount, other, cube, steps, card, caravan, builder>>

\* a.add(&b)
Add ==
    /\ pc = "idle"
    /\ \E a \in Amounts, b \in OtherOperands :
        /\ amount' = a
        /\ other' = b
        /\ result' = (LET r == add(a, b)
                      IN  IF r = Panicked THEN r ELSE Ok(r))
    /\ op' = "add"
    /\ pc' = After(result')
    /\ UNCHANGED <<overflow_checks, cube, steps, card, caravan, builder>>

\* card.purchase(&s)
Purchase ==
    /\ pc = "idle"
    /\ \E k \in Cards, s \in PurseAmounts \cup DocAmounts :
        /\ card' = k
        /\ amount' = s
        /\ result' = purchase(k, s)
    /\ op' = "purchase"
    /\ pc' = "returned"
    /\ UNCHANGED <<overflow_checks, other, cube, steps, caravan, builder>>

\* Caravan::from_spice_amount(v)
FromSpiceAmount ==
    /\ pc = "idle"
    /\ \E v \in CaravanAmounts :
        /\ amount' = v
        /\ result' = from_spice_amount(v)
    /\ caravan' = IF result'.tag = "Ok" THEN result'.val ELSE Unset
    /\ op' = "from_spice_amount"
    /\ pc' = After(result')
    /\ UNCHANGED <<overflow_checks, other, cube, steps, card, builder>>

\* caravan.get_spice_amount()
GetSpiceAmount ==
    /\ pc = "returned"
    /\ caravan # Unset
    /\ op # "get_spice_amount"
    /\ result' = Ok(get_spice_amount(caravan))
    /\ op' = "get_spice_amount"
    /\ UNCHANGED <<pc, overflow_checks, amount, other, cube, steps, card, caravan, builder>>

\* caravan.current_capacity()
CurrentCapacity ==
    /\ pc = "returned"
    /\ caravan # Unset
    /\ op # "current_capacity"
    /\ result' = Ok(current_capacity(caravan))
    /\ op' = "current_capacity"
    /\ UNCHANGED <<pc, overflow_checks, amount, other, cube, steps, card, caravan, builder>>

\* Caravan::from_spice_amount(v) once more, with the v the caravan at hand
\* was built from, after other calls were made on that caravan.
FromSpiceAmountAgain ==
    /\ pc = "returned"
    /\ caravan # Unset
    /\ op \in {"get_spice_amount", "current_capacity"}
    /\ result' = from_spice_amount(amount)
    /\ op' = "from_spice_amount_again"
    /\ pc' = After(result')
    /\ UNCHANGED <<overflow_checks, amount, other, cube, steps, card, caravan, builder>>

\* cube.upgrade(steps) on the cube the last upgrade returned, as main does
\* with `sample_cube = upgraded_cube`.
UpgradeAgain ==
    /\ pc = "returned"
    /\ op = "upgrade"
    /\ result.tag = "Ok"
    /\ cube' = result.val
    /\ \E n \in U8 :
        /\ steps' = n
        /\ result' = upgrade(result.val, n)
    /\ op' = "upgrade"
    /\ pc' = After(result')
    /\ UNCHANGED <<overflow_checks, amount, other, card, caravan, builder>>

\* SpiceAmountBuilder::new()
BuilderNew ==
    /\ pc = "idle"
    /\ builder' = builder_new
    /\ op' = "builder_new"
    /\ pc' = "building"
    /\ UNCHANGED <<overflow_checks, amount, other, cube, steps, card, caravan, result>>

\* One setter of the builder, in any order and any number of times.
BuilderSet ==
    /\ pc = "building"
    /\ \E v \in SpiceValues :
        \/ builder' = builder_turmeric(builder, v) /\ op' = "builder_turmeric"
        \/ builder' = builder_saffron(builder, v) /\ op' = "builder_saffron"
        \/ builder' = builder_cardamon(builder, v) /\ op' = "builder_cardamon"
        \/ builder' = builder_cinnamon(builder, v) /\ op' = "builder_cinnamon"
    /\ UNCHANGED <<pc, overflow_checks, amount, other, cube, steps, card, caravan, result>>

\* builder.build(), which consumes the builder
BuilderBuild ==
    /\ pc = "building"
    /\ result' = Ok(builder_build(builder))
    /\ builder' = Unset
    /\ op' = "build"
    /\ pc' = "returned"
    /\ UNCHANGED <<overflow_checks, amount, other, cube, steps, card, caravan>>

\* SpiceAmount::from(spice_array)
FromArray ==
    /\ pc = "idle"
    /\ \E t \in SpiceValues, s \in SpiceValues, c \in SpiceValues, n \in SpiceValues :
        result' = Ok(from_array(<<t, s, c, n>>))
    /\ op' = "from_array"
    /\ pc' = "returned"
    /\ UNCHANGED <<overflow_checks, amount, other, cube, steps, card, caravan, builder>>

\* The caller drops every value it holds.
Return ==
    /\ pc = "returned"
    /\ pc' = "idle"
    /\ op' = None
    /\ amount' = Unset
    /\ other' = Unset
    /\ cube' = None
    /\ steps' = None
    /\ card' = Unset
    /\ caravan' = Unset
    /\ builder' = Unset
    /\ result' = Unset
    /\ UNCHANGED overflow_checks

Next ==
    \/ Upgrade
    \/ Subtract
    \/ AddBack
    \/ Add
    \/ Purchase
    \/ FromSpiceAmount
    \/ GetSpiceAmount
    \/ CurrentCapacity
    \/ FromSpiceAmountAgain
    \/ UpgradeAgain
    \/ BuilderNew
    \/ BuilderSet
    \/ BuilderBuild
    \/ FromArray
    \/ Return

Spec == Init /\ [][Next]_vars

----------------------------------------------------------------------------
\* a player: the caravan is rebuilt from the results of add and purchase

\* Every amount a caravan can hold.
StartAmounts ==
    {spice_amount(v[1], v[2], v[3], v[4]) :
        v \in {w \in (0..MAX_CARAVAN_SIZE) \X (0..MAX_CARAVAN_SIZE)
                        \X (0..MAX_CARAVAN_SIZE) \X (0..MAX_CARAVAN_SIZE) :
                  w[1] + w[2] + w[3] + w[4] <= MAX_CARAVAN_SIZE}}

\* The amounts of the Gain cards of the two decks.
GainAmounts ==
    {STARTING_ACTION_CARDS[i].amount :
        i \in {j \in 1..Len(STARTING_ACTION_CARDS) : STARTING_ACTION_CARDS[j].kind = "Gain"}}
    \cup
    {PURCHASABLE_ACTION_CARDS[i].amount :
        i \in {j \in 1..Len(PURCHASABLE_ACTION_CARDS) : PURCHASABLE_ACTION_CARDS[j].kind = "Gain"}}

\* The caravan is created at setup from an initial amount.
GameInit ==
    /\ pc = "idle"
    /\ overflow_checks \in BOOLEAN
    /\ op = "setup"
    /\ amount \in StartAmounts
    /\ caravan = from_spice_amount(amount).val
    /\ other = Unset
    /\ cube = None
    /\ steps = None
    /\ card = Unset
    /\ builder = Unset
    /\ result = Unset

\* The player reads the amount of the caravan and picks a points card.
PickCard ==
    /\ pc = "idle"
    /\ amount' = get_spice_amount(caravan)
    /\ \E i \in 1..Len(POINTS_CARDS) : card' = POINTS_CARDS[i]
    /\ other' = Unset
    /\ result' = Unset
    /\ op' = "pick"
    /\ pc' = "picked"
    /\ UNCHANGED <<overflow_checks, cube, steps, caravan, builder>>

\* card.purchase(&amount)
PurchaseCard ==
    /\ pc = "picked"
    /\ LET call == purchase_call(card, amount)
       IN  /\ result' = call.ret
           /\ card' = call.self
           /\ amount' = call.spice_amount
    /\ op' = "purchase"
    /\ pc' = "purchased"
    /\ UNCHANGED <<overflow_checks, other, cube, steps, caravan, builder>>

\* After a purchase that succeeded the caravan is built again from the
\* amount that remains.
RebuildAfterPurchase ==
    /\ pc = "purchased"
    /\ result.tag = "Ok"
    /\ LET built == from_spice_amount(result.val[2])
       IN  /\ result' = built
           /\ caravan' = IF built.tag = "Ok" THEN built.val ELSE caravan
           /\ amount' = IF built.tag = "Ok" THEN get_spice_amount(built.val) ELSE amount
           /\ pc' = IF built.tag = "Panic" THEN "aborted" ELSE "idle"
    /\ op' = "rebuild"
    /\ card' = Unset
    /\ UNCHANGED <<overflow_checks, other, cube, steps, builder>>

\* After a purchase that failed the player keeps caravan and amount.
KeepAfterPurchase ==
    /\ pc = "purchased"
    /\ result.tag = "Err"
    /\ result' = Unset
    /\ card' = Unset
    /\ op' = "keep"
    /\ pc' = "idle"
    /\ UNCHANGED <<overflow_checks, amount, other, cube, steps, caravan, builder>>

\* A Gain card: amount.add(&gain), and the caravan is built again from the
\* sum; when the construction fails the player keeps the caravan.
PlayGain ==
    /\ pc = "idle"
    /\ \E g \in GainAmounts :
        /\ other' = g
        /\ LET sum == add(get_spice_amount(caravan), g)
               built == IF sum = Panicked THEN Panicked ELSE from_spice_amount(sum)
           IN  /\ result' = built
               /\ caravan' = IF built.tag = "Ok" THEN built.val ELSE caravan
               /\ amount' = IF built.tag = "Ok" THEN get_spice_amount(built.val)
                            ELSE get_spice_amount(caravan)
               /\ pc' = IF built.tag = "Panic" THEN "aborted" ELSE "idle"
    /\ op' = "gain"
    /\ UNCHANGED <<overflow_checks, cube, steps, card, builder>>

GameNext ==
    \/ PickCard
    \/ PurchaseCard
    \/ RebuildAfterPurchase
    \/ KeepAfterPurchase
    \/ PlayGain

GameSpec == GameInit /\ [][GameNext]_vars

----------------------------------------------------------------------------
\* properties

SumOf(v) == v[1] + v[2] + v[3] + v[4]
Max(x, y) == IF x >= y THEN x ELSE y
\* v has every component at least as large as w
Covers(v, w) == \A i \in 1..4 : v[i] >= w[i]
\* The named fields of the amount x are the components of v, in order.
FieldsAre(x, v) ==
    /\ x.turmeric = v[1]
    /\ x.saffron = v[2]
    /\ x.cardamon = v[3]
    /\ x.cinnamon = v[4]
    /\ x.vector = v

\* C1: a caravan built from a vector v of sum at most 10 is built
\* successfully, and get_spice_amount of it returns v: the four counts and
\* the positional array.
C1_RoundTrip ==
    /\ (op = "from_spice_amount" /\ SumOf(amount.vector) <= MAX_CARAVAN_SIZE)
          => (result.tag = "Ok" /\ caravan = result.val)
    /\ op = "get_spice_amount"
          => (result.tag = "Ok" /\ FieldsAre(result.val, amount.vector)
                /\ result.val = amount)

C1_Witness ==
    /\ op = "get_spice_amount"
    /\ amount.vector = <<3, 1, 2, 4>>
    /\ result = Ok(spice_amount(3, 1, 2, 4))

\* C2: from_spice_amount fails with MaxSpiceCapacityReached exactly when
\* the components of v, each up to 255, sum to more than 10; otherwise it
\* succeeds and current_capacity of the caravan is that sum.
C2_CapacityBoundary ==
    /\ op \in {"from_spice_amount", "from_spice_amount_again"}
          => /\ (result = Err(MaxSpiceCapacityReached))
                   <=> (SumOf(amount.vector) > MAX_CARAVAN_SIZE)
             /\ (SumOf(amount.vector) <= MAX_CARAVAN_SIZE) => result.tag = "Ok"
    /\ op = "current_capacity" => result = Ok(SumOf(amount.vector))

C2_Witness ==
    /\ op = "current_capacity"
    /\ SumOf(amount.vector) = MAX_CARAVAN_SIZE
    /\ amount.cinnamon > 0
    /\ result = Ok(MAX_CARAVAN_SIZE)

\* C3: a.subtract(b) is Ok exactly when a.contains(b), and a.contains(b)
\* exactly when every component of a is at least the component of b.
C3_ContainsSubtractDuality ==
    op = "subtract"
        => /\ (result.tag = "Ok") <=> contains(amount, other)
           /\ contains(amount, other) <=> Covers(amount.vector, other.vector)
           /\ result.tag \in {"Ok", "Err"}

C3_Witness ==
    /\ op = "subtract"
    /\ result.tag = "Ok"
    /\ amount.vector[4] = other.vector[4]
    /\ other.vector[4] > 0
    /\ \A i \in 1..3 : amount.vector[i] > other.vector[i]

\* C4: when a.subtract(b) is Ok(c), every component of c is the component
\* of a less that of b, not below zero, and c.add(b) is a.
C4_SubtractThenAdd ==
    /\ (op = "subtract" /\ result.tag = "Ok")
          => /\ \A i \in 1..4 :
                    /\ result.val.vector[i] = amount.vector[i] - other.vector[i]
                    /\ result.val.vector[i] >= 0
             /\ FieldsAre(result.val, result.val.vector)
    /\ op = "add_back" => result = Ok(amount)

C4_Witness ==
    /\ op = "add_back"
    /\ amount = spice_amount(2, 1, 4, 3)
    /\ other = spice_amount(1, 1, 4, 1)
    /\ result = Ok(spice_amount(2, 1, 4, 3))

C6_UpgradeResult ==
    op = "upgrade"
        => /\ steps = 0 => result = Err(CannotUpgradeToSelf)
           /\ (steps >= 1 /\ Level(cube) + steps <= 4)
                 => /\ result.tag = "Ok"
                    /\ result.val \in SpiceCube
                    /\ Level(result.val) = Level(cube) + steps

C6_Witness ==
    /\ op = "upgrade"
    /\ cube = "Turmeric"
    /\ steps = 2
    /\ result = Ok("Cardamon")

\* C7: upgrade(steps) with steps in 1..255 and level + steps > 4 returns
\* the error CannotUpgradePastCinnamon; the sum is never taken modulo 256
\* and the call never aborts.
C7_UpgradePastMaximum ==
    (op = "upgrade" /\ steps >= 1 /\ Level(cube) + steps > 4)
        => /\ result = Err(CannotUpgradePastCinnamon)
           /\ pc # "aborted"

\* C8: purchase(s) on a card (p, c) with s containing c returns
\* Ok((p, r)) with r[i] = s[i] - c[i], the result of s.subtract(c).
C8_PurchaseSuccess ==
    (op = "purchase" /\ Covers(amount.vector, card.cost.vector))
        => /\ result.tag = "Ok"
           /\ result.val[1] = card.points
           /\ FieldsAre(result.val[2],
                        [i \in 1..4 |-> amount.vector[i] - card.cost.vector[i]])
           /\ Ok(result.val[2]) = subtract(amount, card.cost)

C8_Witness ==
    /\ op = "purchase"
    /\ card = points_card(11, 3, 0, 0, 2)
    /\ amount = spice_amount(4, 2, 1, 2)
    /\ result = Ok(<<11, spice_amount(1, 2, 1, 0)>>)

CanonicalSpaces(v) ==
    [i \in 1..MAX_CARAVAN_SIZE |->
        IF i <= v[1] THEN "Turmeric"
        ELSE IF i <= v[1] + v[2] THEN "Saffron"
        ELSE IF i <= v[1] + v[2] + v[3] THEN "Cardamon"
        ELSE IF i <= v[1] + v[2] + v[3] + v[4] THEN "Cinnamon"
        ELSE None]

\* C10: the caravan built from v of sum n <= 10 holds v[1] Turmeric, then
\* v[2] Saffron, v[3] Cardamon, v[4] Cinnamon from slot 0 on and nothing in
\* slots n..9; building it again from v after other calls gives the same
\* slots.
C10_CanonicalFill ==
    /\ (op \in {"from_spice_amount", "from_spice_amount_again"}
           /\ SumOf(amount.vector) <= MAX_CARAVAN_SIZE)
          => /\ result.tag = "Ok"
             /\ result.val.spaces = CanonicalSpaces(amount.vector)
             /\ \A i \in 1..MAX_CARAVAN_SIZE :
                    (result.val.spaces[i] # None) <=> (i <= SumOf(amount.vector))
             /\ \A i \in 1..(MAX_CARAVAN_SIZE - 1) :
                    result.val.spaces[i + 1] # None
                        => Level(result.val.spaces[i]) <= Level(result.val.spaces[i + 1])
    /\ op = "from_spice_amount_again" => result = Ok(caravan)

C10_Witness ==
    /\ op = "from_spice_amount_again"
    /\ amount.vector = <<3, 1, 0, 0>>
    /\ result.val.spaces = <<"Turmeric", "Turmeric", "Turmeric", "Saffron",
                             None, None, None, None, None, None>>

\* The positional array of the amount x agrees with its named fields.
Consistent(x) == x.vector = <<x.turmeric, x.saffron, x.cardamon, x.cinnamon>>

\* The amounts a returned value carries.
AmountsOf(r) ==
    IF r.tag = "Ok"
    THEN CASE op \in {"subtract", "add", "add_back", "get_spice_amount",
                      "build", "from_array"} -> {r.val}
           [] op = "purchase" -> {r.val[2]}
           [] OTHER -> {}
    ELSE IF r.tag = "Err" /\ r.err.kind = "CannotSubtractSpiceAmount"
    THEN {r.err.f0, r.err.f1}
    ELSE {}

\* C12: every SpiceAmount made by the spice_amount! and points_card!
\* macros, by the builder's setters in any order and number, by
\* From<[u8; 4]>, add, subtract (the deficit included) and
\* get_spice_amount has vector[0..3] equal to its turmeric, saffron,
\* cardamon and cinnamon fields.
C12_RepresentationConsistent ==
    /\ amount # Unset => Consistent(amount)
    /\ other # Unset => Consistent(other)
    /\ card # Unset => Consistent(card.cost)
    /\ builder # Unset => Consistent(builder.spice_amount)
    /\ \A x \in AmountsOf(result) : Consistent(x)
    /\ \A i \in 1..Len(POINTS_CARDS) : Consistent(POINTS_CARDS[i].cost)

C12_Witness ==
    /\ pc = "building"
    /\ op = "builder_turmeric"
    /\ builder.spice_amount.vector = <<2, 1, U8Max, 1>>
    /\ builder.spice_amount.cardamon = U8Max

\* C13: a.add(b) returns the vector whose component i is a[i] + b[i]; no
\* component wraps modulo 256 and the call never aborts, also when some
\* a[i] + b[i] is more than 255.
C13_AddExact ==
    op = "add"
        => /\ pc # "aborted"
           /\ result.tag = "Ok"
           /\ \A i \in 1..4 : result.val.vector[i] = amount.vector[i] + other.vector[i]

\* C16: whenever u.upgrade(steps) returns Ok(w), the level of w is above
\* the level of u; a Cinnamon is never upgraded, and along upgrades applied
\* to the successive results the level never goes down.
C16_UpgradeRaisesRank ==
    (op = "upgrade" /\ result.tag = "Ok")
        => /\ Level(result.val) > Level(cube)
           /\ cube # "Cinnamon"

\* The number of occupied slots of a caravan.
Occupied(c) == Cardinality({i \in 1..Len(c.spaces) : c.spaces[i] # None})

\* C11: along any sequence of constructions driven by the results of add
\* and purchase, the caravan has exactly 10 slots and at most 10 of them
\* occupied; a construction that fails returns MaxSpiceCapacityReached and
\* no caravan; no construction writes a slot of index 10 or more, which
\* would panic.
C11_CaravanCapacity ==
    /\ pc # "aborted"
    /\ Len(caravan.spaces) = MAX_CARAVAN_SIZE
    /\ \A i \in 1..MAX_CARAVAN_SIZE : caravan.spaces[i] \in SpiceCube \cup {None}
    /\ Occupied(caravan) <= MAX_CARAVAN_SIZE
    /\ op \in {"gain", "rebuild"}
          => /\ result.tag \in {"Ok", "Err"}
             /\ result.tag = "Ok" => result.val = caravan
             /\ result.tag = "Err"
                   => /\ result = Err(MaxSpiceCapacityReached)
                      /\ DOMAIN result = {"tag", "err"}
    /\ (op = "gain" /\ SumOf(amount.vector) + SumOf(other.vector) > MAX_CARAVAN_SIZE
           /\ result.tag = "Err")
          => Occupied(caravan) = SumOf(amount.vector)

C11_Witness ==
    /\ op = "gain"
    /\ result = Err(MaxSpiceCapacityReached)
    /\ other = spice_amount(1, 0, 1, 0)
    /\ Occupied(caravan) = MAX_CARAVAN_SIZE - 1

\* C15: a purchase leaves the amount and the card it was called with as
\* they were, whether it returns Ok or Err, and changes nothing else the
\* caller holds; on Err the amount in the error is the caller's amount, on
\* Ok the one new value is the pair of the points and the remaining amount.
C15_PurchaseFrame ==
    /\ [][pc = "picked"
            => /\ pc' = "purchased"
               /\ amount' = amount
               /\ card' = card
               /\ caravan' = caravan
               /\ other' = other
               /\ builder' = builder]_vars
    /\ [](pc = "purchased"
            => /\ \E i \in 1..Len(POINTS_CARDS) : card = POINTS_CARDS[i]
               /\ get_spice_amount(caravan) = amount
               /\ result.tag = "Err" => result.err.f0 = amount
               /\ result.tag = "Ok"
                     => /\ result.val[1] = card.points
                        /\ \A i \in 1..4 :
                              result.val[2].vector[i] + card.cost.vector[i]
                                  = amount.vector[i])

C15_Witness ==
    /\ pc = "purchased"
    /\ result.tag = "Ok"
    /\ amount = spice_amount(4, 2, 1, 2)
    /\ card = points_card(11, 3, 0, 0, 2)
    /\ get_spice_amount(caravan) = spice_amount(4, 2, 1, 2)

\* C17: along any sequence of purchases of cards of POINTS_CARDS from an
\* amount of sum at most 10, the remaining amount being taken on success
\* and the amount kept on failure, the sum of the amount is at most 10 and
\* no purchase raises it, from_spice_amount of it succeeds, and a purchase
\* that succeeds lowers the sum by the sum of the cost of the card.
C17_PurchaseKeepsFeasible ==
    /\ [](SumOf(amount.vector) <= MAX_CARAVAN_SIZE)
    /\ [](pc = "purchased" /\ result.tag = "Ok"
            => SumOf(result.val[2].vector)
                  = SumOf(amount.vector) - SumOf(card.cost.vector))
    /\ [](op = "rebuild" => result = Ok(caravan) /\ get_spice_amount(caravan) = amount)
    /\ [][pc = "purchased"
            => /\ SumOf(amount'.vector) <= SumOf(amount.vector)
               /\ result.tag = "Ok"
                     => /\ result'.tag = "Ok"
                        /\ SumOf(amount'.vector)
                              = SumOf(amount.vector) - SumOf(card.cost.vector)
               /\ result.tag = "Err" => amount' = amount]_vars

C17_Witness ==
    /\ op = "rebuild"
    /\ result.tag = "Ok"
    /\ amount = spice_amount(0, 0, 0, 5)
    /\ Occupied(caravan) = 5

====
